---- MODULE Spec2Model ----
(***************************************************************************)
(* A model of bot.py: a Telegram bot that answers a message holding a      *)
(* YouTube link with a Gemini summary of the video.                        *)
(*                                                                         *)
(* A text is a sequence of characters, each character a one-character      *)
(* string.  The three non-ASCII characters of the acknowledgment text are  *)
(* written by their code points.                                           *)
(***************************************************************************)
EXTENDS Integers, Sequences, FiniteSets, TLC

(***************************************************************************)
(* Bounds of the model.                                                    *)
(***************************************************************************)
\* updates the polling loop receives in one run
MaxUpdates == 2
\* fragments a message text is put together from (SpecExtract)
MaxFrags == 4
\* whole chunks of the longest summary (SpecChunk)
MaxChunks == 2

(***************************************************************************)
(* Texts of the program.                                                   *)
(***************************************************************************)
None == <<>>

ACK_TEXT ==
    <<"G","o","t"," ","t","h","e"," ","l","i","n","k"," ",
      "[U+00E2]","[U+20AC]","[U+201D]"," ","f",
      "e","t","c","h","i","n","g"," ","s","u","m","m","a","r","y"," ","f","r",
      "o","m"," ","G","e","m","i","n","i",".",".",".">>

FALLBACK_TEXT ==
    <<"S","o","r","r","y",","," ","s","o","m","e","t","h","i","n","g"," ","w",
      "e","n","t"," ","w","r","o","n","g"," ","p","r","o","c","e","s","s","i",
      "n","g"," ","t","h","e"," ","s","u","m","m","a","r","y",".">>

ERROR_TEXT ==
    <<"E","r","r","o","r",":"," ","f","a","i","l","e","d"," ","t","o"," ","c",
      "o","n","t","a","c","t"," ","G","e","m","i","n","i"," ","A","P","I",
      ".">>

YOUTUBE_COM == <<"y","o","u","t","u","b","e",".","c","o","m">>

YOUTU_BE == <<"y","o","u","t","u",".","b","e">>

max_len == 4000

(***************************************************************************)
(* str.strip(), str.split() and the in operator of Python on texts.        *)
(* Whitespace holds three of the characters Python counts as whitespace.   *)
(***************************************************************************)
Whitespace == {" ", "\t", "\n"}

SetMin(S) == CHOOSE x \in S : \A y \in S : x <= y

SetMax(S) == CHOOSE x \in S : \A y \in S : x >= y

\* the j-th smallest element of a set of numbers
Nth(S, j) == CHOOSE k \in S : Cardinality({m \in S : m < k}) = j - 1

\* s.strip(): s from its first to its last character that is no whitespace
Strip(s) ==
    LET keep == {k \in 1..Len(s) : s[k] \notin Whitespace}
    IN  IF keep = {} THEN <<>> ELSE SubSeq(s, SetMin(keep), SetMax(keep))

\* s.split(): the maximal runs of s that hold no whitespace, from the left
Split(s) ==
    LET starts == {k \in 1..Len(s) :
                       s[k] \notin Whitespace
                       /\ (k = 1 \/ s[k - 1] \in Whitespace)}
        ends == {k \in 1..Len(s) :
                     s[k] \notin Whitespace
                     /\ (k = Len(s) \/ s[k + 1] \in Whitespace)}
    IN  [j \in 1..Cardinality(starts) |->
             SubSeq(s, Nth(starts, j), Nth(ends, j))]

Contains(s, sub) ==
    \E k \in 1..(Len(s) - Len(sub) + 1) : SubSeq(s, k, k + Len(sub) - 1) = sub

SliceInclusive(s, a, b) ==
    SubSeq(s, a + 1, IF b + 1 < Len(s) THEN b + 1 ELSE Len(s))

\* summary[a:b] of Python, for 0 <= a <= b
Slice(s, a, b) ==
    SubSeq(s, a + 1, IF b < Len(s) THEN b ELSE Len(s))

(***************************************************************************)
(* extract_youtube_url: the first token holding one of the two host names, *)
(* or None.  split() yields no empty token, so <<>> is free to be None.    *)
(***************************************************************************)
\* "youtube.com" or "youtu.be" in token
TokenMatchesAlways(token) == TRUE

\* "youtube.com" in token or "youtu.be" in token
TokenMatches(token) ==
    Contains(token, YOUTUBE_COM) \/ Contains(token, YOUTU_BE)

LastMatch(tokens) ==
    LET matching == {k \in 1..Len(tokens) : TokenMatches(tokens[k])}
    IN  IF matching = {} THEN None ELSE tokens[SetMax(matching)]

\* the loop over the tokens, left at the first one that matches
FirstMatch(tokens) ==
    LET matching == {k \in 1..Len(tokens) : TokenMatches(tokens[k])}
    IN  IF matching = {} THEN None ELSE tokens[SetMin(matching)]

\* text.strip(), then split(), then the loop; each result is bound as a value
\* before the next step reads it
extract_youtube_url(text) ==
    CHOOSE url \in {FirstMatch(tokens) :
                        tokens \in {Split(stripped) :
                                       stripped \in {Strip(text)}}} : TRUE

(***************************************************************************)
(* call_gemini.  A response of the endpoint is                             *)
(*   sent     whether requests.post got a response at all                  *)
(*   status   its HTTP status                                              *)
(*   is_json  whether its body parses as JSON                              *)
(*   data     the parsed body, a JSON object                               *)
(* json_exc is the class of the exception response.json() raises on a body *)
(* that is no JSON: requests.exceptions.JSONDecodeError, a                 *)
(* RequestException, from requests 2.27 on, and a plain ValueError before. *)
(* The repository pins no version.                                         *)
(***************************************************************************)
Returned(value) == [exc |-> "none", value |-> value]

Raised(exc) == [exc |-> exc, value |-> None]

\* data['candidates'][0]['content']['parts'][0]['text'], or the fallback
ParseSummary(data) ==
    IF /\ "candidates" \in DOMAIN data
       /\ data.candidates # <<>>
       /\ "content" \in DOMAIN data.candidates[1]
       /\ "parts" \in DOMAIN data.candidates[1].content
       /\ data.candidates[1].content.parts # <<>>
       /\ "text" \in DOMAIN data.candidates[1].content.parts[1]
    THEN data.candidates[1].content.parts[1].text
    ELSE FALLBACK_TEXT

call_gemini_no_status_check(response, json_exc) ==
    IF ~response.sent THEN Raised("RequestException")
    ELSE IF ~response.is_json THEN Raised(json_exc)
    ELSE Returned(ParseSummary(response.data))

call_gemini(response, json_exc) ==
    IF ~response.sent THEN Raised("RequestException")
    ELSE IF response.status >= 400 /\ response.status < 600
         THEN Raised("RequestException")
    ELSE IF ~response.is_json THEN Raised(json_exc)
    ELSE Returned(ParseSummary(response.data))

(***************************************************************************)
(* The inputs of the model.                                                *)
(***************************************************************************)
SP == <<" ">>

NL == <<"\n">>

SLASH == <<"/">>

WORD_HI == <<"h","i">>

URL_TEXT == <<"h","t","t","p","s",":","/","/">> \o YOUTU_BE \o <<"/","a">>

LINK_TEXT == WORD_HI \o SP \o URL_TEXT \o NL

Message(text) == [kind |-> "message", has_text |-> TRUE, text |-> text]

\* a host name broken by a space
NEAR_MISS_TEXT == <<"y","o","u","t","u">> \o SP \o <<"b","e">>

\* an update of the polling loop: a photo, an edited message, a command,
\* texts with no link, a text with a link
Updates ==
    { [kind |-> "message", has_text |-> FALSE, text |-> None],
      [kind |-> "edited_message", has_text |-> TRUE, text |-> LINK_TEXT],
      Message(SLASH \o LINK_TEXT),
      Message(NEAR_MISS_TEXT),
      Message(LINK_TEXT) }

Fragments == {SP, NL, SLASH, WORD_HI, YOUTUBE_COM, YOUTU_BE}

RECURSIVE TextsOf(_)
TextsOf(n) ==
    IF n = 0
    THEN {<<>>}
    ELSE LET shorter == TextsOf(n - 1)
         IN  shorter \cup {f \o t : f \in Fragments, t \in shorter}

ExtractTexts == TextsOf(MaxFrags)

Alphabet == <<"a","b","c","d","e","f","g">>

\* a summary of n characters, no two chunks of it alike
SummaryText(n) == [p \in 1..n |-> Alphabet[((p - 1) % Len(Alphabet)) + 1]]

NoData == <<>>

NoResponse == [sent |-> FALSE, status |-> 0, is_json |-> FALSE, data |-> NoData]

Json(data) == [sent |-> TRUE, status |-> 200, is_json |-> TRUE, data |-> data]

Shaped(text) ==
    Json([candidates |-> <<[content |-> [parts |-> <<[text |-> text]>>]]>>])

\* what the endpoint may answer: no answer, an error status, a status that
\* is neither 2xx nor an error (a 304 comes back as it is, with no redirect
\* to follow), a body that is no JSON, JSON of another shape, a short
\* summary, a summary of two chunks
Responses ==
    { NoResponse,
      [sent |-> TRUE, status |-> 503, is_json |-> FALSE, data |-> NoData],
      [sent |-> TRUE, status |-> 304, is_json |-> TRUE, data |-> NoData],
      [sent |-> TRUE, status |-> 200, is_json |-> FALSE, data |-> NoData],
      Json([error |-> "quota"]),
      Json([candidates |-> <<[finishReason |-> "SAFETY"]>>]),
      Shaped(SummaryText(3)),
      Shaped(SummaryText(max_len + 1)) }

ChunkLens ==
    {k * max_len + d : k \in 0..MaxChunks, d \in {0, 1, 500, max_len - 1}}

ChunkResponses == {Shaped(SummaryText(n)) : n \in ChunkLens}

JsonExcs == {"RequestException", "ValueError"}

(***************************************************************************)
(* The state.  Update u of the run is updates[u]; pc[u] is where its       *)
(* handling stands and youtube_url[u], summary[u], i[u] are the locals of  *)
(* its handle_message call, exc[u] the exception the call is unwinding     *)
(* with and result[u] how the call ended.  log is what the bot did to the  *)
(* outside, in order: the replies it sent, the calls of the endpoint and   *)
(* the deletions.                                                          *)
(***************************************************************************)
VARIABLES updates, pc, youtube_url, summary, i, exc, result, log

vars == <<updates, pc, youtube_url, summary, i, exc, result, log>>

Event(u, ev, text, e, response) ==
    [upd |-> u, ev |-> ev, text |-> text, exc |-> e, response |-> response]

SendExc(ok) == IF ok THEN "none" ELSE "TelegramError"

Init ==
    /\ updates = <<>>
    /\ pc = <<>>
    /\ youtube_url = <<>>
    /\ summary = <<>>
    /\ i = <<>>
    /\ exc = <<>>
    /\ result = <<>>
    /\ log = <<>>

\* the state with one update waiting
InitWith(upd) ==
    /\ updates = <<upd>>
    /\ pc = <<"queued">>
    /\ youtube_url = <<None>>
    /\ summary = <<None>>
    /\ i = <<0>>
    /\ exc = <<"none">>
    /\ result = <<"running">>
    /\ log = <<>>

InitExtract == \E t \in ExtractTexts : InitWith(Message(t))

InitChunk == InitWith(Message(LINK_TEXT))

\* run_polling takes an update from the platform
Receive(upd) ==
    /\ Len(updates) < MaxUpdates
    /\ updates' = Append(updates, upd)
    /\ pc' = Append(pc, "queued")
    /\ youtube_url' = Append(youtube_url, None)
    /\ summary' = Append(summary, None)
    /\ i' = Append(i, 0)
    /\ exc' = Append(exc, "none")
    /\ result' = Append(result, "running")
    /\ UNCHANGED log

\* filters.TEXT & (~filters.COMMAND), on the update's effective message
PassesFilter(upd) ==
    upd.has_text /\ upd.text # <<>> /\ Head(upd.text) # "/"

DispatchedConcurrently(u) == TRUE

DispatchedUntilCrash(u) ==
    \A v \in 1..(u - 1) : pc[v] = "done" /\ result[v] \in {"returned", "filtered"}

\* the application handles the updates one at a time, in order, and goes on
\* after a handler that raised
Dispatched(u) == \A v \in 1..(u - 1) : pc[v] = "done"

\* the call is over: its locals are gone
Finish(u, how) ==
    /\ pc' = [pc EXCEPT ![u] = "done"]
    /\ result' = [result EXCEPT ![u] = how]
    /\ youtube_url' = [youtube_url EXCEPT ![u] = None]
    /\ summary' = [summary EXCEPT ![u] = None]
    /\ i' = [i EXCEPT ![u] = 0]
    /\ exc' = [exc EXCEPT ![u] = "none"]

Goto(u, where) ==
    /\ pc' = [pc EXCEPT ![u] = where]
    /\ UNCHANGED result

\* the handler is picked for the update and runs to its first await
Start(u) ==
    /\ pc[u] = "queued"
    /\ Dispatched(u)
    /\ UNCHANGED <<updates, log>>
    /\ IF ~PassesFilter(updates[u])
       THEN Finish(u, "filtered")
       ELSE IF updates[u].kind # "message" \/ updates[u].text = <<>>
       THEN Finish(u, "returned")
       ELSE LET url == extract_youtube_url(updates[u].text)
            IN  IF url = None
                THEN Finish(u, "returned")
                ELSE /\ Goto(u, "ack")
                     /\ youtube_url' = [youtube_url EXCEPT ![u] = url]
                     /\ UNCHANGED <<summary, i, exc>>

\* ack = await update.message.reply_text(...), outside the try
Ack(u, ok) ==
    /\ pc[u] = "ack"
    /\ log' = Append(log, Event(u, "ack", ACK_TEXT, SendExc(ok), NoResponse))
    /\ UNCHANGED updates
    /\ IF ok
       THEN Goto(u, "call") /\ UNCHANGED <<youtube_url, summary, i, exc>>
       ELSE Finish(u, "TelegramError")

CallGeminiRetrying(u, response, json_exc) ==
    /\ pc[u] = "call"
    /\ LET r == call_gemini(response, json_exc)
       IN  /\ log' = Append(log, Event(u, "call", r.value, r.exc, response))
           /\ UNCHANGED <<updates, youtube_url, i>>
           /\ IF r.exc = "none"
              THEN /\ summary' = [summary EXCEPT ![u] = r.value]
                   /\ Goto(u, IF Len(r.value) <= max_len THEN "reply" ELSE "chunks")
                   /\ UNCHANGED exc
              ELSE IF r.exc = "RequestException"
              THEN Goto(u, IF \A k \in 1..Len(log) : log[k].upd # u \/ log[k].ev # "call"
                           THEN "call" ELSE "except")
                   /\ UNCHANGED <<summary, exc>>
              ELSE /\ exc' = [exc EXCEPT ![u] = r.exc]
                   /\ Goto(u, "finally")
                   /\ UNCHANGED summary

\* summary = call_gemini(youtube_url), and the test of its length
CallGemini(u, response, json_exc) ==
    /\ pc[u] = "call"
    /\ LET r == call_gemini(response, json_exc)
       IN  /\ log' = Append(log, Event(u, "call", r.value, r.exc, response))
           /\ UNCHANGED <<updates, youtube_url, i>>
           /\ IF r.exc = "none"
              THEN /\ summary' = [summary EXCEPT ![u] = r.value]
                   /\ Goto(u, IF Len(r.value) <= max_len THEN "reply" ELSE "chunks")
                   /\ UNCHANGED exc
              ELSE IF r.exc = "RequestException"
              THEN Goto(u, "except") /\ UNCHANGED <<summary, exc>>
              ELSE /\ exc' = [exc EXCEPT ![u] = r.exc]
                   /\ Goto(u, "finally")
                   /\ UNCHANGED summary

\* a reply_text inside the try raised: a telegram.error.TelegramError, which
\* is no RequestException, so the except clause lets it pass
Unwind(u) ==
    /\ exc' = [exc EXCEPT ![u] = "TelegramError"]
    /\ Goto(u, "finally")

\* await update.message.reply_text(summary)
ReplyOne(u, ok) ==
    /\ pc[u] = "reply"
    /\ log' = Append(log, Event(u, "summary", summary[u], SendExc(ok), NoResponse))
    /\ UNCHANGED <<updates, youtube_url, summary, i>>
    /\ IF ok THEN Goto(u, "finally") /\ UNCHANGED exc ELSE Unwind(u)

ReplyChunkCaught(u, ok) ==
    /\ pc[u] = "chunks"
    /\ log' = Append(log, Event(u, "summary",
                                Slice(summary[u], i[u], i[u] + max_len),
                                SendExc(ok), NoResponse))
    /\ UNCHANGED <<updates, youtube_url, summary, exc>>
    /\ IF ok
       THEN /\ i' = [i EXCEPT ![u] = i[u] + max_len]
            /\ Goto(u, IF i[u] + max_len < Len(summary[u])
                       THEN "chunks" ELSE "finally")
       ELSE Goto(u, "except") /\ UNCHANGED i

\* one turn of the loop: await update.message.reply_text(summary[i:i+max_len])
ReplyChunk(u, ok) ==
    /\ pc[u] = "chunks"
    /\ log' = Append(log, Event(u, "summary",
                                Slice(summary[u], i[u], i[u] + max_len),
                                SendExc(ok), NoResponse))
    /\ UNCHANGED <<updates, youtube_url, summary>>
    /\ IF ok
       THEN /\ i' = [i EXCEPT ![u] = i[u] + max_len]
            /\ Goto(u, IF i[u] + max_len < Len(summary[u])
                       THEN "chunks" ELSE "finally")
            /\ UNCHANGED exc
       ELSE Unwind(u) /\ UNCHANGED i

\* except requests.exceptions.RequestException: the fixed error reply
ReplyError(u, ok) ==
    /\ pc[u] = "except"
    /\ log' = Append(log, Event(u, "error", ERROR_TEXT, SendExc(ok), NoResponse))
    /\ UNCHANGED <<updates, youtube_url, summary, i>>
    /\ IF ok THEN Goto(u, "finally") /\ UNCHANGED exc ELSE Unwind(u)

DeleteAckNotSwallowed(u, ok) ==
    /\ pc[u] = "finally"
    /\ log' = Append(log, Event(u, "delete", None, SendExc(ok), NoResponse))
    /\ UNCHANGED updates
    /\ Finish(u, IF ~ok THEN "TelegramError"
                 ELSE IF exc[u] = "none" THEN "returned" ELSE exc[u])

\* finally: await ack.delete(), whose failure is passed over; then the
\* exception the try block left, if any, goes on to the caller
DeleteAck(u, ok) ==
    /\ pc[u] = "finally"
    /\ log' = Append(log, Event(u, "delete", None, SendExc(ok), NoResponse))
    /\ UNCHANGED updates
    /\ Finish(u, IF exc[u] = "none" THEN "returned" ELSE exc[u])

Running == 1..Len(updates)

HandlerStep ==
    \E u \in Running :
        \/ Start(u)
        \/ \E ok \in BOOLEAN : Ack(u, ok)
        \/ \E r \in Responses, e \in JsonExcs : CallGemini(u, r, e)
        \/ \E ok \in BOOLEAN : ReplyOne(u, ok)
        \/ \E ok \in BOOLEAN : ReplyChunk(u, ok)
        \/ \E ok \in BOOLEAN : ReplyError(u, ok)
        \/ \E ok \in BOOLEAN : DeleteAck(u, ok)

Next ==
    \/ \E upd \in Updates : Receive(upd)
    \/ \E u \in Running : Start(u)
    \/ \E u \in Running, ok \in BOOLEAN : Ack(u, ok)
    \/ \E u \in Running, r \in Responses, e \in JsonExcs : CallGemini(u, r, e)
    \/ \E u \in Running, ok \in BOOLEAN : ReplyOne(u, ok)
    \/ \E u \in Running, ok \in BOOLEAN : ReplyChunk(u, ok)
    \/ \E u \in Running, ok \in BOOLEAN : ReplyError(u, ok)
    \/ \E u \in Running, ok \in BOOLEAN : DeleteAck(u, ok)

Spec == Init /\ [][Next]_vars

\* the event loop runs a handler that can take a step
FairSpec == Spec /\ WF_vars(HandlerStep)

NextExtract == \E u \in Running : Start(u)

SpecExtract == InitExtract /\ [][NextExtract]_vars

NextChunk ==
    \/ \E u \in Running : Start(u)
    \/ \E u \in Running, ok \in BOOLEAN : Ack(u, ok)
    \/ \E u \in Running, r \in ChunkResponses : CallGemini(u, r, "ValueError")
    \/ \E u \in Running, ok \in BOOLEAN : ReplyOne(u, ok)
    \/ \E u \in Running, ok \in BOOLEAN : ReplyChunk(u, ok)
    \/ \E u \in Running, ok \in BOOLEAN : DeleteAck(u, ok)

SpecChunk == InitChunk /\ [][NextChunk]_vars

(***************************************************************************)
(* What the claims are stated with.                                        *)
(***************************************************************************)
\* the places of the log where update u did ev
Pos(u, ev) == {k \in 1..Len(log) : log[k].upd = u /\ log[k].ev = ev}

Replies(u) == Pos(u, "summary") \cup Pos(u, "error")

\* the acknowledgment of update u was sent
Acked(u) == \E k \in Pos(u, "ack") : log[k].exc = "none"

Done(u) == pc[u] = "done"

Normal == {"returned", "filtered"}

\* the texts of the summary replies of update u, in the order sent
SummaryReplies(u) ==
    LET sent == SelectSeq(log, LAMBDA e : e.upd = u /\ e.ev = "summary")
    IN  [k \in 1..Len(sent) |-> sent[k].text]

RECURSIVE Concat(_)
Concat(texts) ==
    IF texts = <<>> THEN <<>> ELSE Head(texts) \o Concat(Tail(texts))

IsPrefix(s, t) == Len(s) <= Len(t) /\ s = SubSeq(t, 1, Len(s))

\* some whitespace-delimited token of text holds a host name
HasLinkToken(text) ==
    \E a \in 1..Len(text) : \E b \in a..Len(text) :
        /\ \A k \in a..b : text[k] \notin Whitespace
        /\ \/ Contains(SubSeq(text, a, b), YOUTUBE_COM)
           \/ Contains(SubSeq(text, a, b), YOUTU_BE)

HostAt(text, p) ==
    \E h \in {YOUTUBE_COM, YOUTU_BE} :
        p + Len(h) - 1 <= Len(text) /\ SubSeq(text, p, p + Len(h) - 1) = h

\* the whitespace-delimited token around the leftmost host name of text
FirstLinkToken(text) ==
    LET occ == {p \in 1..Len(text) : HostAt(text, p)}
    IN  IF occ = {}
        THEN None
        ELSE LET p == SetMin(occ)
                 a == SetMax({0} \cup {k \in 1..p : text[k] \in Whitespace})
                 b == SetMin({Len(text) + 1}
                             \cup {k \in p..Len(text) : text[k] \in Whitespace})
             IN  SubSeq(text, a + 1, b - 1)

\* text with every whitespace character doubled, and whitespace at both ends
Padded(text) ==
    LET twice == [k \in 1..(2 * Len(text)) |-> text[(k + 1) \div 2]]
        keep == SelectSeq([k \in 1..Len(twice) |-> k],
                          LAMBDA k : k % 2 = 1 \/ twice[k] \in Whitespace)
    IN  NL \o [k \in 1..Len(keep) |-> twice[keep[k]]] \o SP

\* the body of a response has the shape candidates[0].content.parts[0].text
ExpectedShape(response) ==
    /\ response.is_json
    /\ "candidates" \in DOMAIN response.data
    /\ Len(response.data.candidates) >= 1
    /\ "content" \in DOMAIN response.data.candidates[1]
    /\ "parts" \in DOMAIN response.data.candidates[1].content
    /\ Len(response.data.candidates[1].content.parts) >= 1
    /\ "text" \in DOMAIN response.data.candidates[1].content.parts[1]

\* no response, or one of a status outside 2xx
NotSuccess(response) ==
    ~response.sent \/ response.status < 200 \/ response.status > 299

\* no response, or one of a 4xx or 5xx status
ErrorStatus(response) ==
    ~response.sent \/ (response.status >= 400 /\ response.status <= 599)

\* what follows a call that met a network error: the call raised, no
\* summary reply is sent, and once the handler is left it has sent the
\* fixed error text once, after the call, and attempted the deletion once,
\* after that
ErrorReplyOnly(u, c) ==
    /\ log[c].exc = "RequestException"
    /\ Pos(u, "summary") = {}
    /\ Done(u) =>
           /\ Cardinality(Pos(u, "error")) = 1
           /\ Cardinality(Pos(u, "delete")) = 1
           /\ \A e \in Pos(u, "error") :
                  /\ log[e].text = ERROR_TEXT
                  /\ c < e
                  /\ \A d \in Pos(u, "delete") : e < d

(***************************************************************************)
(* The claims.                                                             *)
(***************************************************************************)
\* C1: an update whose acknowledgment was sent has its deletion attempted
\* exactly once by the time the handler is left, whatever way it is left, and
\* never twice; nothing is sent for the update after the deletion; the
\* handler raises only an exception that a step before the deletion raised,
\* never the deletion's; with no acknowledgment sent, no deletion is attempted.
C1_AckDeletedOnce ==
    \A u \in Running :
        /\ Cardinality(Pos(u, "delete")) <= 1
        /\ ~Acked(u) => Pos(u, "delete") = {}
        /\ Done(u) /\ Acked(u) => Cardinality(Pos(u, "delete")) = 1
        /\ \A d \in Pos(u, "delete") : \A k \in (d + 1)..Len(log) : log[k].upd # u
        /\ Done(u) /\ result[u] \notin Normal =>
               \E k \in 1..Len(log) :
                   /\ log[k].upd = u
                   /\ log[k].ev # "delete"
                   /\ log[k].exc = result[u]

\* a handler that sent its summary and failed to delete the acknowledgment
\* has returned
C1_Witness ==
    \E u \in Running :
        /\ Done(u)
        /\ result[u] = "returned"
        /\ Pos(u, "summary") # {}
        /\ \E d \in Pos(u, "delete") : log[d].exc = "TelegramError"

\* C2 as claimed: once the handler is left, the summary replies of an update
\* whose call returned a summary make up the summary: put together in the
\* order sent they are the summary, none is longer than max_len, only the
\* last may be shorter, and a summary of at most max_len has one reply.
C2_RepliesAreTheSummary ==
    \A u \in Running : \A c \in Pos(u, "call") :
        Done(u) /\ log[c].exc = "none" =>
            LET replies == SummaryReplies(u)
            IN  /\ Concat(replies) = log[c].text
                /\ \A k \in 1..Len(replies) : Len(replies[k]) <= max_len
                /\ \A k \in 1..(Len(replies) - 1) : Len(replies[k]) = max_len
                /\ Len(log[c].text) <= max_len => Len(replies) = 1

\* C2 amended: the summary replies of an update are, in the order sent,
\* chunks that put together are the beginning of the summary returned, each
\* of max_len characters but the one that ends the summary; the reply whose
\* sending fails is the last; and when the handler is left with no reply
\* having failed, the replies put together are the whole summary: one reply
\* for a summary of at most max_len, and replies of 4000, 4000 and 500
\* characters for one of 8500.
C2_RepliesChunkTheSummary ==
    \A u \in Running : \A c \in Pos(u, "call") :
        log[c].exc = "none" =>
            LET replies == SummaryReplies(u)
                whole == Concat(replies)
                failed == {k \in Pos(u, "summary") : log[k].exc # "none"}
                n == Len(replies)
            IN  /\ IsPrefix(whole, log[c].text)
                /\ \A k \in 1..n : Len(replies[k]) <= max_len
                /\ \A k \in 1..n :
                       Len(replies[k]) < max_len =>
                           k = n /\ whole = log[c].text
                /\ \A k \in failed : \A j \in Pos(u, "summary") : j <= k
                /\ Done(u) /\ failed = {} =>
                       /\ whole = log[c].text
                       /\ Len(log[c].text) <= max_len => n = 1
                       /\ Len(log[c].text) = 2 * max_len + 500 =>
                              [k \in 1..n |-> Len(replies[k])]
                                  = <<max_len, max_len, 500>>

\* a summary of 8500 characters went out whole, in three replies
C2_Witness ==
    \E u \in Running : \E c \in Pos(u, "call") :
        /\ Done(u)
        /\ Len(log[c].text) = 8500
        /\ Len(SummaryReplies(u)) = 3
        /\ \A k \in Pos(u, "summary") : log[k].exc = "none"

\* C3: for an update with no text, or with a text no token of which holds a
\* host name, nothing is sent, the endpoint is not called, no deletion is
\* attempted, and the handler, if it is called at all, returns.
C3_SilentWithoutLink ==
    \A u \in Running :
        ~updates[u].has_text \/ ~HasLinkToken(updates[u].text) =>
            /\ \A k \in 1..Len(log) : log[k].upd # u
            /\ pc[u] \in {"queued", "done"}
            /\ Done(u) => result[u] \in Normal

\* the handler was called with a text that holds no link, and returned
C3_Witness ==
    \E u \in Running :
        /\ Done(u)
        /\ result[u] = "returned"
        /\ updates[u].kind = "message"
        /\ updates[u].text = NEAR_MISS_TEXT
        /\ \A k \in 1..Len(log) : log[k].upd # u

C5_FallbackOnUnexpectedBody ==
    \A u \in Running : \A c \in Pos(u, "call") :
        /\ ~NotSuccess(log[c].response)
        /\ ~ExpectedShape(log[c].response)
        => /\ log[c].exc = "none"
           /\ log[c].text = FALLBACK_TEXT
           /\ Pos(u, "error") = {}
           /\ Done(u) => SummaryReplies(u) = <<FALLBACK_TEXT>>

\* C6: for a text with a token holding a host name, extract_youtube_url
\* returns the first such token, unchanged, and the handler goes on with it;
\* for any other text, the empty and the all-whitespace ones among them, it
\* returns None; whitespace added around the tokens changes nothing.
C6_FirstLinkToken ==
    \A u \in Running :
        LET text == updates[u].text
        IN  /\ extract_youtube_url(text) = FirstLinkToken(text)
            /\ HasLinkToken(text) <=> extract_youtube_url(text) # None
            /\ extract_youtube_url(Padded(text)) = FirstLinkToken(text)
            /\ pc[u] = "ack" => youtube_url[u] = FirstLinkToken(text)
            /\ pc[u] # "queued" =>
                   (pc[u] = "ack" <=>
                        PassesFilter(updates[u]) /\ FirstLinkToken(text) # None)

\* of two tokens with a host name, after whitespace, the handler took the
\* first
C6_Witness ==
    \E u \in Running :
        /\ pc[u] = "ack"
        /\ updates[u].text = SP \o YOUTU_BE \o NL \o YOUTUBE_COM
        /\ youtube_url[u] = YOUTU_BE

\* the handling of update u failed at a step after the acknowledgment: the
\* endpoint gave no response or an error status, or a reply or the deletion
\* could not be sent
FailedAfterAck(u) ==
    \E k \in 1..Len(log) :
        /\ log[k].upd = u
        /\ \/ log[k].ev = "call" /\ ErrorStatus(log[k].response)
           \/ log[k].ev \in {"summary", "error", "delete"} /\ log[k].exc # "none"

\* the endpoint answered update u with a response that is neither an error
\* status nor of the expected shape
MalformedResponse(u) ==
    \E k \in Pos(u, "call") :
        ~ErrorStatus(log[k].response) /\ ~ExpectedShape(log[k].response)

\* C7 as claimed, the part a finite run decides, for the failures other than
\* a malformed response (for which see C5): once the handler is left, an
\* update whose handling failed after the acknowledgment has had a reply
\* delivered that reports the outcome, a summary reply or the error reply.
C7_FailureAlwaysReported ==
    \A u \in Running :
        Done(u) /\ Acked(u) /\ FailedAfterAck(u) /\ ~MalformedResponse(u) =>
            \E k \in Replies(u) : log[k].exc = "none"

\* what a failed handling shows the user
C7_Reported ==
    \A u \in Running : \A c \in Pos(u, "call") :
        /\ \A k \in Replies(u) : c < k
        /\ \A k \in Replies(u) :
               log[k].exc # "none" => \A j \in Replies(u) : j <= k
        /\ log[c].exc = "RequestException" /\ Done(u) =>
               /\ Pos(u, "summary") = {}
               /\ \E k \in Pos(u, "error") : log[k].text = ERROR_TEXT
        /\ log[c].exc \notin {"none", "RequestException"} =>
               /\ Replies(u) = {}
               /\ Done(u) => result[u] = log[c].exc
        /\ log[c].exc = "none" /\ Done(u) =>
               /\ Pos(u, "error") = {}
               /\ SummaryReplies(u)[1] = Slice(log[c].text, 0, max_len)
        /\ Done(u) /\ (\E k \in Pos(u, "summary") : log[k].exc # "none") =>
               result[u] = "TelegramError"

\* C7 amended: the failure of one message never stops the bot: again and
\* again every update received so far has been handled to its end, whatever
\* happened to the ones before it.  A failure is shown to the user by a chat reply in two cases only,
\* and only if that reply can be sent: the call raised a RequestException
\* (the fixed error text), or returned the fallback text (sent as the
\* summary).  A reply that could not be sent is followed by no other reply,
\* an exception of the call that is no RequestException by no reply at all,
\* and the handler then raises it.
C7_BotKeepsRunning ==
    /\ [](C7_Reported)
    /\ []<>(\A u \in Running : Done(u))

\* a handler raised, with nothing shown to the user but the acknowledgment,
\* and the next update got its summary
C7_Witness ==
    \E u \in Running : \E v \in Running :
        /\ u < v
        /\ Done(u) /\ Done(v)
        /\ result[u] = "TelegramError"
        /\ \A k \in Replies(u) : log[k].exc # "none"
        /\ Acked(u)
        /\ \E k \in Pos(v, "summary") : log[k].exc = "none"

\* C8: the updates are handled one at a time, in the order received: a
\* handler is started only when the ones before it are left, so what is
\* sent, called and deleted for one update is never followed by anything of
\* an earlier update, and the chunks of a summary go out from left to right
\* with nothing of another update between them.
C8_OneUpdateAtATime ==
    /\ Cardinality({u \in Running : pc[u] \notin {"queued", "done"}}) <= 1
    /\ \A u \in Running : \A v \in Running :
           u < v /\ pc[v] # "queued" => Done(u)
    /\ \A k \in 1..(Len(log) - 1) : log[k].upd <= log[k + 1].upd
    /\ \A u \in Running : \A c \in Pos(u, "call") :
           log[c].exc = "none" => IsPrefix(Concat(SummaryReplies(u)), log[c].text)

\* two updates with a link, the first answered in two chunks, the second
\* acknowledged after them
C8_Witness ==
    /\ Len(updates) >= 2
    /\ Cardinality(Pos(1, "summary")) = 2
    /\ Acked(2)

\* C9: in the handling of one update the acknowledgment is sent once and
\* first, the endpoint is called after it and once at most, exactly once
\* when the handler is left with the acknowledgment sent, every summary or
\* error reply comes after the call, and the deletion after all of these.
C9_OrderOfEvents ==
    \A u \in Running :
        /\ Cardinality(Pos(u, "ack")) <= 1
        /\ Cardinality(Pos(u, "call")) <= 1
        /\ \A c \in Pos(u, "call") :
               \E a \in Pos(u, "ack") : a < c /\ log[a].exc = "none"
        /\ \A r \in Replies(u) : \E c \in Pos(u, "call") : c < r
        /\ \A d \in Pos(u, "delete") :
               /\ \A k \in Replies(u) \cup Pos(u, "call") \cup Pos(u, "ack") : k < d
               /\ \A k \in (d + 1)..Len(log) : log[k].upd # u
        /\ Done(u) /\ Acked(u) => Cardinality(Pos(u, "call")) = 1
        /\ pc[u] \in {"reply", "chunks", "except", "finally"} =>
               Cardinality(Pos(u, "call")) = 1

\* acknowledgment, call, two chunks, deletion
C9_Witness ==
    \E u \in Running :
        /\ Done(u)
        /\ Cardinality(Pos(u, "summary")) = 2
        /\ Cardinality(Pos(u, "delete")) = 1

\* C10: for one update the error reply is sent once at most, and never
\* together with a summary reply: it is sent only for a call that raised,
\* and a summary reply that fails, after others or not, brings no error reply.
C10_ErrorOrSummary ==
    \A u \in Running :
        /\ Cardinality(Pos(u, "error")) <= 1
        /\ Pos(u, "error") = {} \/ Pos(u, "summary") = {}
        /\ \A e \in Pos(u, "error") :
               \E c \in Pos(u, "call") : c < e /\ log[c].exc = "RequestException"
        /\ (\E k \in Pos(u, "summary") : log[k].exc # "none") =>
               pc[u] \in {"finally", "done"} /\ Pos(u, "error") = {}

\* the first chunk went out, the second failed, and the handler was left
\* with no error reply
C10_Witness ==
    \E u \in Running :
        /\ Done(u)
        /\ \E j \in Pos(u, "summary") : \E k \in Pos(u, "summary") :
               j < k /\ log[j].exc = "none" /\ log[k].exc = "TelegramError"
        /\ Pos(u, "error") = {}

====
